---- MODULE Spec2Model ----
(***************************************************************************)
(* A model of src/data_processing.py: ingest_data, detect_anomalies and    *)
(* summarize_metrics, as operators over small tabular datasets, and a      *)
(* caller that applies them one after the other.                           *)
(*                                                                         *)
(* Representation.                                                         *)
(*   - A DataFrame is [type, columns, rows]: columns a set of column       *)
(*     names, rows a sequence of functions from the columns to cells.      *)
(*   - A nullable cell (value, quality, is_anomaly, anomaly_score,         *)
(*     detection_method) is a sequence of length 0 (NaN / None) or 1.      *)
(*   - A timestamp cell is a string: "T1", "T2", "T3" are instants (a      *)
(*     pd.Timestamp or its canonical text), "t1" is another spelling of    *)
(*     the instant T1, "junk" is text that is no date, "NaT" is missing.   *)
(*   - A value is a decimal literal counted in tenths: 1 is the float 0.1. *)
(***************************************************************************)
EXTENDS Integers, Sequences, FiniteSets, TLC

VARIABLES pending, held, call, ret, history

vars == <<pending, held, call, ret, history>>

----------------------------------------------------------------------------
(* Cells, rows and frames *)

NaN == <<>>
NaT == "NaT"
Cell(x) == <<x>>
isna(c) == Len(c) = 0

DataFrame(cols, rows) == [type |-> "DataFrame", columns |-> cols, rows |-> rows]
None == [type |-> "NoneType", columns |-> {}, rows |-> <<>>]
NotAFrame == [type |-> "dict", columns |-> {}, rows |-> <<>>]

RawColumns == {"timestamp", "sensor", "value", "quality"}

Reading(ts, s, v, q) == [timestamp |-> ts, sensor |-> s, value |-> v, quality |-> q]

\* The rows of `rows` at the positions in `keep`, in order.
RECURSIVE Take(_, _, _)
Take(rows, keep, i) ==
  IF i > Len(rows) THEN <<>>
  ELSE (IF i \in keep THEN <<rows[i]>> ELSE <<>>) \o Take(rows, keep, i + 1)

Filter(rows, Test(_)) == Take(rows, {i \in 1..Len(rows) : Test(rows[i])}, 1)

\* row r with column c set to x (the column is added when it is new).
WithColumn(r, c, x) == [k \in DOMAIN r \cup {c} |-> IF k = c THEN x ELSE r[k]]

----------------------------------------------------------------------------
(* Python values the caller may pass as data_batches *)

List(items) == [type |-> "list", items |-> items]
Tuple(items) == [type |-> "tuple", items |-> items]

\* bool(x): a DataFrame has no truth value (pandas raises ValueError).
TruthValue(x) ==
  CASE x.type = "NoneType" -> "False"
    [] x.type = "DataFrame" -> "ValueError"
    [] OTHER -> IF Len(x.items) = 0 THEN "False" ELSE "True"

----------------------------------------------------------------------------
(* What a call gives back: the exception raised ("none" when it returns),   *)
(* the returned value, the last stage the call reached, and what it        *)
(* printed.                                                                *)

Returned(v, stage, printed) ==
  [exc |-> "none", value |-> v, stage |-> stage, printed |-> printed]
Raised(e, stage) ==
  [exc |-> e, value |-> None, stage |-> stage, printed |-> <<>>]

----------------------------------------------------------------------------
(* ingest_data *)

\* line 34: isinstance(df, pd.DataFrame) and not df.empty
IsValidBatch_emptyKept(b) == b.type = "DataFrame"
IsValidBatch(b) == b.type = "DataFrame" /\ Len(b.rows) > 0

valid_data_batches(items) ==
  Take(items, {i \in 1..Len(items) : IsValidBatch(items[i])}, 1)

\* A missing cell of column c (pd.concat fills the columns a batch lacks).
Missing(c) == IF c = "timestamp" THEN NaT ELSE NaN

RECURSIVE AllRows(_, _)
AllRows(bs, cols) ==
  IF Len(bs) = 0 THEN <<>>
  ELSE LET b == Head(bs)
           widen(r) == [c \in cols |-> IF c \in DOMAIN r THEN r[c] ELSE Missing(c)]
       IN [i \in 1..Len(b.rows) |-> widen(b.rows[i])] \o AllRows(Tail(bs), cols)

\* line 38: pd.concat(valid_data_batches, ignore_index=True)
concat(bs) ==
  LET cols == UNION {bs[i].columns : i \in 1..Len(bs)}
  IN DataFrame(cols, AllRows(bs, cols))

\* line 40: pd.to_datetime(cell, errors="coerce")
Instants == {"T1", "T2", "T3"}
to_datetime(c) ==
  CASE c \in Instants -> c
    [] c = "t1" -> "T1"
    [] OTHER -> NaT

ParseTimestamps(rows) ==
  [i \in 1..Len(rows) |-> [rows[i] EXCEPT !.timestamp = to_datetime(@)]]

TimeRank(t) == CASE t = "T1" -> 1 [] t = "T2" -> 2 [] t = "T3" -> 3 [] OTHER -> 0

\* line 45: dropna(subset=["timestamp"])
DropNaT(rows) == Filter(rows, LAMBDA r : r.timestamp # NaT)

\* line 48: drop_duplicates() keeps the first of the rows equal in every column
drop_duplicates(rows) ==
  Take(rows, {i \in 1..Len(rows) : \A j \in 1..(i - 1) : rows[j] # rows[i]}, 1)

\* line 51: dropna(subset=["value"])
DropNaValue(rows) == Filter(rows, LAMBDA r : ~isna(r.value))

\* str.upper()
upper(s) ==
  CASE s = "good" -> "GOOD"
    [] s = "bad" -> "BAD"
    [] s = "Bad" -> "BAD"
    [] s = "uncertain" -> "UNCERTAIN"
    [] OTHER -> s

\* line 54: df["quality"].str.upper().fillna("UNCERTAIN")
NormalizeQuality_noUpper(rows) ==
  [i \in 1..Len(rows) |->
     [rows[i] EXCEPT !.quality = IF isna(@) THEN Cell("UNCERTAIN") ELSE @]]
NormalizeQuality(rows) ==
  [i \in 1..Len(rows) |->
     [rows[i] EXCEPT !.quality =
        IF isna(@) THEN Cell("UNCERTAIN") ELSE Cell(upper(@[1]))]]

\* lines 57-60: the numbers behind the printed percentage
BadReport(rows) ==
  [bad_readings |-> Cardinality({i \in 1..Len(rows) : rows[i].quality = Cell("BAD")}),
   total_readings |-> Len(rows)]

\* line 63: df[df["quality"] != "BAD"]
DropBad(rows) == Filter(rows, LAMBDA r : r.quality # Cell("BAD"))

\* line 66: sort_values(by="timestamp") with the default kind="quicksort", which
\* is not stable: rows of equal timestamp may come out in any order.
IsTimeSorted(rows) ==
  \A i \in 1..(Len(rows) - 1) :
    TimeRank(rows[i].timestamp) <= TimeRank(rows[i + 1].timestamp)

sort_values(rows) ==
  {s \in {[i \in 1..Len(rows) |-> rows[p[i]]] : p \in Permutations(1..Len(rows))} :
     IsTimeSorted(s)}

\* The integers of a sequence in ascending order.
RECURSIVE Insert(_, _)
Insert(x, s) ==
  IF Len(s) = 0 THEN <<x>>
  ELSE IF x <= Head(s) THEN <<x>> \o s
  ELSE <<Head(s)>> \o Insert(x, Tail(s))

RECURSIVE Sorted(_)
Sorted(s) == IF Len(s) = 0 THEN <<>> ELSE Insert(Head(s), Sorted(Tail(s)))

\* Series.quantile(p/q), linear interpolation, times q (s ascending, not empty).
quantile(s, p, q) ==
  LET pos == (Len(s) - 1) * p
      lo == pos \div q
      r == pos % q
  IN q * s[lo + 1] + (IF r = 0 THEN 0 ELSE (s[lo + 2] - s[lo + 1]) * r)

Values(rows) == [i \in 1..Len(rows) |-> rows[i].value[1]]

\* lines 72-73: value < quantile(0.01) or value > quantile(0.99), over all rows
AddOutlier(rows) ==
  LET s == Sorted(Values(rows))
      flag(v) == 100 * v < quantile(s, 1, 100) \/ 100 * v > quantile(s, 99, 100)
  IN [i \in 1..Len(rows) |-> WithColumn(rows[i], "is_outlier", flag(rows[i].value[1]))]

\* lines 43-73: the cleaning steps, one result per order the sort may produce
Validated(df) ==
  LET normalized == NormalizeQuality(DropNaValue(drop_duplicates(DropNaT(df.rows))))
      report == BadReport(normalized)
  IN {Returned(DataFrame(df.columns \cup {"is_outlier"}, AddOutlier(s)),
               "return", <<report>>) :
        s \in sort_values(DropBad(normalized))}

\* lines 23-75
ingest_data(data_batches, validate) ==
  IF TruthValue(data_batches) # "True" \/ data_batches.type # "list"
  THEN {Raised("ValueError", "check_batches")}
  ELSE LET valid == valid_data_batches(data_batches.items)
       IN IF Len(valid) = 0
          THEN {Raised("ValueError", "check_valid_batches")}
          ELSE LET all == concat(valid)
                   df == DataFrame(all.columns, ParseTimestamps(all.rows))
               IN IF validate THEN Validated(df)
                  ELSE {Returned(df, "return", <<>>)}

----------------------------------------------------------------------------
(* The inputs of the ingestion runs *)

MaxRowsIngest == 3

IngestRows ==
  { Reading("T1", "temp", Cell(1), Cell("good")),
    Reading("T1", "temp", Cell(1), Cell("GOOD")),
    Reading("T1", "temp", Cell(1), NaN),
    Reading("T1", "temp", Cell(1), Cell("UNCERTAIN")),
    Reading("t1", "temp", Cell(1), Cell("GOOD")),
    Reading("T1", "temp", Cell(2), Cell("GOOD")),
    Reading("T2", "temp", Cell(2), Cell("GOOD")),
    Reading("T2", "temp", Cell(1), Cell("bad")),
    Reading("junk", "temp", Cell(1), Cell("GOOD")),
    Reading("T2", "temp", NaN, Cell("GOOD")) }

SeqsUpTo(S, n) == UNION {[1..k -> S] : k \in 1..n}

\* One batch holding every row.
RowInputs == {List(<<DataFrame(RawColumns, rows)>>) : rows \in SeqsUpTo(IngestRows, MaxRowsIngest)}

\* Collections that are no list, are empty, or mix frames with empty and
\* non-frame batches.
BatchItems ==
  { NotAFrame,
    DataFrame(RawColumns, <<>>),
    DataFrame(RawColumns, <<Reading("T2", "temp", Cell(2), Cell("GOOD"))>>),
    DataFrame(RawColumns, <<Reading("T1", "temp", Cell(1), Cell("bad")),
                            Reading("junk", "temp", Cell(1), NaN)>>) }

BatchInputs ==
  {None, DataFrame(RawColumns, <<>>), List(<<>>), Tuple(<<>>)}
    \cup {List(items) : items \in SeqsUpTo(BatchItems, MaxRowsIngest)}
    \cup {Tuple(items) : items \in SeqsUpTo(BatchItems, 1)}

----------------------------------------------------------------------------
(* float64 arithmetic, for the mean that decides `std == 0`.  A natural     *)
(* number is a sequence of limbs (digits in base 2^LimbBits), the most     *)
(* significant first.  A positive double is [m, e]: m its significand, a   *)
(* number of exactly Significand bits, and the value is m * 2^e.  Every    *)
(* operation rounds to nearest, ties to even.  Values are positive.        *)

LimbBits == 14
Base == 2 ^ LimbBits
Significand == 53

Zeros(k) == [i \in 1..k |-> 0]

RECURSIVE Strip(_)
Strip(a) == IF Len(a) > 0 /\ a[1] = 0 THEN Strip(Tail(a)) ELSE a

\* a + b + carry for numbers of one length, from limb i leftwards
RECURSIVE AddFrom(_, _, _, _)
AddFrom(a, b, i, carry) ==
  IF i = 0 THEN (IF carry = 0 THEN <<>> ELSE <<carry>>)
  ELSE LET t == a[i] + b[i] + carry
       IN AddFrom(a, b, i - 1, t \div Base) \o <<t % Base>>

Add(a, b) ==
  LET n == IF Len(a) > Len(b) THEN Len(a) ELSE Len(b)
  IN AddFrom(Zeros(n - Len(a)) \o a, Zeros(n - Len(b)) \o b, n, 0)

\* a * c + carry for a small c, from limb i leftwards
RECURSIVE MulFrom(_, _, _, _)
MulFrom(a, c, i, carry) ==
  IF i = 0 THEN (IF carry = 0 THEN <<>> ELSE <<carry>>)
  ELSE LET t == a[i] * c + carry
       IN MulFrom(a, c, i - 1, t \div Base) \o <<t % Base>>

\* a divided by a small n, from limb i on with remainder r
RECURSIVE DivFrom(_, _, _, _)
DivFrom(a, n, i, r) ==
  IF i > Len(a) THEN [q |-> <<>>, r |-> r]
  ELSE LET cur == r * Base + a[i]
           rest == DivFrom(a, n, i + 1, cur % n)
       IN [q |-> <<cur \div n>> \o rest.q, r |-> rest.r]

Div(a, n) == LET d == DivFrom(a, n, 1, 0) IN [q |-> Strip(d.q), r |-> d.r]

RECURSIVE BitsOf(_)
BitsOf(x) == IF x = 0 THEN 0 ELSE 1 + BitsOf(x \div 2)

BitLen(a) == IF Len(a) = 0 THEN 0 ELSE (Len(a) - 1) * LimbBits + BitsOf(a[1])

ShiftLeft(a, k) == Strip(MulFrom(a, 2 ^ (k % LimbBits), Len(a), 0)) \o Zeros(k \div LimbBits)

\* a / 2^k as [q, r], and whether a bit that was shifted out is set
Shifted(a, kept, d) == [q |-> d.q, sticky |-> d.r # 0 \/ \E i \in (kept + 1)..Len(a) : a[i] # 0]
ShiftRight(a, k) ==
  Shifted(a, Len(a) - k \div LimbBits,
          Div(SubSeq(a, 1, Len(a) - k \div LimbBits), 2 ^ (k % LimbBits)))

IsOdd(a) == Len(a) > 0 /\ a[Len(a)] % 2 = 1

\* a < b (-1), a = b (0) or a > b (1) for numbers of one length
RECURSIVE Cmp(_, _)
Cmp(a, b) ==
  IF Len(a) = 0 THEN 0
  ELSE IF a[1] # b[1] THEN (IF a[1] < b[1] THEN 0 - 1 ELSE 1)
  ELSE Cmp(Tail(a), Tail(b))

\* The double nearest to a * 2^e (+ a nonzero fraction of 2^e when sticky):
\* the significand is cut to Significand bits and a guard bit (q), halved
\* (sig), rounded up on more than a half or on a half under an odd sig, and
\* renormalised when the round-up carries into a new bit.
Renormalised(m, e) ==
  IF BitLen(m) > Significand THEN [m |-> Div(m, 2).q, e |-> e + 1] ELSE [m |-> m, e |-> e]

RoundedUp(q, sig, e, sticky) ==
  Renormalised(IF IsOdd(q) /\ (sticky \/ IsOdd(sig)) THEN Add(sig, <<1>>) ELSE sig, e)

RoundCut(sh, e, sticky) == RoundedUp(sh.q, Div(sh.q, 2).q, e, sticky \/ sh.sticky)

RoundBits(a, e, sticky, k) ==
  IF k <= 0 THEN [m |-> ShiftLeft(a, 0 - k), e |-> e + k]
  ELSE RoundCut(ShiftRight(a, k - 1), e + k, sticky)

Round(a, e, sticky) == RoundBits(a, e, sticky, BitLen(a) - Significand)

RoundQuotient(d, e) == Round(d.q, e, d.r # 0)

FZero == [m |-> <<>>, e |-> 0]

Min(i, j) == IF i < j THEN i ELSE j

FAddAligned(x, y, e) ==
  Round(Strip(Add(ShiftLeft(x.m, x.e - e), ShiftLeft(y.m, y.e - e))), e, FALSE)

FAdd(x, y) ==
  IF Len(x.m) = 0 THEN y
  ELSE IF Len(y.m) = 0 THEN x
  ELSE FAddAligned(x, y, Min(x.e, y.e))

\* x / n for a count n
FDivCount(x, n) == RoundQuotient(Div(x.m \o <<0>>, n), x.e - LimbBits)

FCmp(x, y) ==
  IF x.e # y.e THEN (IF x.e < y.e THEN 0 - 1 ELSE 1) ELSE Cmp(x.m, y.m)

\* The double a decimal literal of t tenths denotes (0 < t < 2^LimbBits).
Float(t) == RoundQuotient(Div(<<t>> \o Zeros(5), 10), 0 - 5 * LimbBits)

\* Series.sum() of fewer than 8 values: the values added in order.
RECURSIVE FSum(_, _)
FSum(vals, acc) ==
  IF Len(vals) = 0 THEN acc ELSE FSum(Tail(vals), FAdd(acc, Float(Head(vals))))

\* line 110: valid_values.mean(), the float64 sum over the count
fmean(vals) == FDivCount(FSum(vals, FZero), Len(vals))

----------------------------------------------------------------------------
(* Anomaly scores.  A score is the real number sgn * sqrt(num / den); sgn  *)
(* is 0 exactly when the float64 score is 0.0.  A threshold is counted in  *)
(* tenths.                                                                 *)

Score(sgn, num, den) == [sgn |-> sgn, num |-> num, den |-> den]
ZeroScore == Score(0, 0, 1)

Sign(x) == IF x < 0 THEN 0 - 1 ELSE IF x > 0 THEN 1 ELSE 0

\* score.abs() > threshold
Exceeds(score, threshold) ==
  IF score.sgn = 0 THEN 0 > threshold
  ELSE IF threshold <= 0 THEN TRUE
  ELSE 100 * score.num > threshold * threshold * score.den

RECURSIVE Sum(_)
Sum(s) == IF Len(s) = 0 THEN 0 ELSE Head(s) + Sum(Tail(s))

\* n times the deviation of v from the mean of vals, and the squares' sum
Dev(vals, v) == Len(vals) * v - Sum(vals)
SumSq(vals) == Sum([i \in 1..Len(vals) |-> Dev(vals, vals[i]) * Dev(vals, vals[i])])

Scored(flag, score) == [is_anomaly |-> Cell(flag), anomaly_score |-> score]

\* lines 109-118.  std is float64: the square root of the sum of the squared
\* float64 deviations over n - 1, so it is 0.0 exactly when every value equals
\* the float64 mean, and NaN for a single value.
std_is_zero(vals) ==
  Len(vals) >= 2 /\ \A i \in 1..Len(vals) : FCmp(Float(vals[i]), fmean(vals)) = 0

ScoredBy(score, threshold) == Scored(Exceeds(score, threshold), Cell(score))

ZScoreOf(vals, v, sgn) ==
  IF sgn = 0 THEN ZeroScore
  ELSE IF SumSq(vals) = 0 THEN Score(sgn, Len(vals) - 1, Len(vals))
  ELSE Score(sgn, Dev(vals, v) * Dev(vals, v) * (Len(vals) - 1), SumSq(vals))

ZScores(cells, vals, threshold, mean) ==
  [i \in 1..Len(cells) |->
     IF Len(vals) < 2 \/ isna(cells[i]) THEN Scored(FALSE, NaN)
     ELSE ScoredBy(ZScoreOf(vals, cells[i][1], FCmp(Float(cells[i][1]), mean)), threshold)]

zscore(cells, vals, threshold) ==
  IF std_is_zero(vals)
  THEN [i \in 1..Len(cells) |-> Scored(FALSE, Cell(ZeroScore))]
  ELSE ZScores(cells, vals, threshold, fmean(vals))

\* lines 120-129
iqr(cells, vals, threshold) ==
  LET s == Sorted(vals)
      Q1 == quantile(s, 1, 4)
      Q3 == quantile(s, 3, 4)
      IQR == Q3 - Q1
      score(v) ==
        LET d == 4 * v - Q3
        IN IF d = 0 THEN ZeroScore ELSE Score(1, d * d, IQR * IQR)
      flag(v) == 40 * v < 10 * Q1 - threshold * IQR \/ 40 * v > 10 * Q3 + threshold * IQR
      one(c) ==
        IF isna(c) THEN Scored(FALSE, NaN)
        ELSE Scored(flag(c[1]), Cell(score(c[1])))
  IN IF IQR = 0
     THEN [i \in 1..Len(cells) |-> Scored(FALSE, Cell(ZeroScore))]
     ELSE [i \in 1..Len(cells) |-> one(cells[i])]

window == 10

\* The non-missing values among cells[lo..hi].
RECURSIVE Observed(_, _, _)
Observed(cells, lo, hi) ==
  IF lo > hi THEN <<>>
  ELSE (IF isna(cells[lo]) THEN <<>> ELSE <<cells[lo][1]>>) \o Observed(cells, lo + 1, hi)

\* lines 131-138: rolling(window, min_periods=2) mean and std, in exact
\* arithmetic; a zero std under a value equal to the mean gives 0/0 = NaN.
rolling(cells, vals, threshold) ==
  LET one(i) ==
        LET lo == IF i - window + 1 < 1 THEN 1 ELSE i - window + 1
            obs == Observed(cells, lo, i)
            k == Len(obs)
        IN IF isna(cells[i]) \/ k < 2 \/ SumSq(obs) = 0 THEN Scored(FALSE, NaN)
           ELSE LET d == Dev(obs, cells[i][1])
                    sc == IF d = 0 THEN ZeroScore
                          ELSE Score(Sign(d), d * d * (k - 1), SumSq(obs))
                IN Scored(Exceeds(sc, threshold), Cell(sc))
  IN [i \in 1..Len(cells) |-> one(i)]

----------------------------------------------------------------------------
(* detect_anomalies *)

supported_methods == {"zscore", "iqr", "rolling"}

AnomalyColumns == {"is_anomaly", "anomaly_score", "detection_method"}

\* line 99: data[data["sensor"] == sensor_name]
sensor_rows(data, sensor_name) == Filter(data.rows, LAMBDA r : r.sensor = sensor_name)

ValueCells(rows) == [i \in 1..Len(rows) |-> rows[i].value]

\* line 102: sensor_df["value"].dropna()
valid_values(rows) == Observed(ValueCells(rows), 1, Len(rows))

\* line 103
Insufficient_one(vals) == Len(vals) < 1
Insufficient(vals) == Len(vals) < 2

\* lines 109-140: the sensor's rows with the three anomaly columns set
sensor_df(data, sensor_name, method, threshold) ==
  LET rows == sensor_rows(data, sensor_name)
      cells == ValueCells(rows)
      vals == valid_values(rows)
      scored == CASE method = "zscore" -> zscore(cells, vals, threshold)
                  [] method = "iqr" -> iqr(cells, vals, threshold)
                  [] method = "rolling" -> rolling(cells, vals, threshold)
  IN DataFrame(data.columns \cup AnomalyColumns,
       [i \in 1..Len(rows) |->
          [c \in data.columns \cup AnomalyColumns |->
             CASE c = "is_anomaly" -> scored[i].is_anomaly
               [] c = "anomaly_score" -> scored[i].anomaly_score
               [] c = "detection_method" -> Cell(method)
               [] OTHER -> rows[i][c]]])

\* df[columns]
Project(df, cols) ==
  DataFrame(cols, [i \in 1..Len(df.rows) |-> [c \in cols |-> df.rows[i][c]]])

\* The name a column gets in a merge: a column of both sides that is no key
\* takes the side's suffix.
Suffixed(c, suffix, overlap) == IF c \in overlap THEN c \o suffix ELSE c

MergeKeys_timestampOnly == {"timestamp"}
MergeKeys == {"timestamp", "sensor"}

\* lines 142-146: left.merge(right, on=on, how="left"); equal keys match, NaN
\* and NaT keys included; a left row without a match keeps NaN on the right.
RECURSIVE MergePairs(_, _, _)
MergePairs(lrows, right, on) ==
  IF Len(lrows) = 0 THEN <<>>
  ELSE LET l == Head(lrows)
           hits == Filter(right.rows, LAMBDA r : \A k \in on : r[k] = l[k])
           none == [c \in right.columns |-> NaN]
       IN (IF Len(hits) = 0 THEN <<[l |-> l, r |-> none]>>
           ELSE [i \in 1..Len(hits) |-> [l |-> l, r |-> hits[i]]])
          \o MergePairs(Tail(lrows), right, on)

merge(left, right, on) ==
  LET overlap == (left.columns \cap right.columns) \ on
      lcols == {Suffixed(c, "_x", overlap) : c \in left.columns}
      rcols == {Suffixed(c, "_y", overlap) : c \in right.columns \ on}
      lsrc(n) == CHOOSE c \in left.columns : Suffixed(c, "_x", overlap) = n
      rsrc(n) == CHOOSE c \in right.columns \ on : Suffixed(c, "_y", overlap) = n
      pairs == MergePairs(left.rows, right, on)
  IN DataFrame(lcols \cup rcols,
       [i \in 1..Len(pairs) |->
          [n \in lcols \cup rcols |->
             IF n \in lcols THEN pairs[i].l[lsrc(n)] ELSE pairs[i].r[rsrc(n)]]])

\* lines 147-149: fillna(False), fillna(0.0), fillna("none")
fillna(rows) ==
  [i \in 1..Len(rows) |->
     [rows[i] EXCEPT
        !.is_anomaly = IF isna(@) THEN Cell(FALSE) ELSE @,
        !.anomaly_score = IF isna(@) THEN Cell(ZeroScore) ELSE @,
        !.detection_method = IF isna(@) THEN Cell("none") ELSE @]]

\* lines 83-151
detect_anomalies(data, sensor_name, method, threshold) ==
  IF \A i \in 1..Len(data.rows) : data.rows[i].sensor # sensor_name
  THEN Raised("ValueError", "check_sensor")
  ELSE IF method \notin supported_methods
  THEN Raised("ValueError", "check_method")
  ELSE IF Insufficient(valid_values(sensor_rows(data, sensor_name)))
  THEN Raised("ValueError", "check_values")
  ELSE LET scored == sensor_df(data, sensor_name, method, threshold)
           result == merge(data, Project(scored, MergeKeys \cup AnomalyColumns), MergeKeys)
       IN IF ~(AnomalyColumns \subseteq result.columns)
          THEN Raised("KeyError", "fillna")
          ELSE Returned(DataFrame(result.columns, fillna(result.rows)), "return", <<>>)

\* lines 199-261: the body is the docstring and the raise
summarize_metrics(data, group_by, time_window) ==
  Raised("NotImplementedError", "raise")

----------------------------------------------------------------------------
(* The caller: it holds raw batches, ingests them, and passes the dataset   *)
(* it got back to the next stage.  A run ends at the first exception.      *)

NoCall == [fn |-> "none"]

LastFn == IF Len(history) = 0 THEN "none" ELSE history[Len(history)]

Ingest(validate) ==
  /\ history = <<>>
  /\ \E r \in ingest_data(pending, validate) :
       /\ ret' = r
       /\ held' = IF r.exc = "none" THEN r.value ELSE held
  /\ call' = [fn |-> "ingest_data", data_batches |-> pending, validate |-> validate]
  /\ pending' = None
  /\ history' = <<"ingest_data">>

\* ingest_data([cleaned], validate=True) on the output of a validating call
Reingest ==
  /\ history = <<"ingest_data">>
  /\ ret.exc = "none"
  /\ call.validate
  /\ \E r \in ingest_data(List(<<held>>), TRUE) :
       /\ ret' = r
       /\ held' = IF r.exc = "none" THEN r.value ELSE held
  /\ call' = [fn |-> "ingest_data", data_batches |-> List(<<held>>), validate |-> TRUE]
  /\ history' = Append(history, "ingest_data")
  /\ UNCHANGED pending

\* detect_anomalies(held, sensor_name, method, threshold)
Detect(sensor_name, method, threshold) ==
  /\ ret.exc = "none"
  /\ ret' = detect_anomalies(held, sensor_name, method, threshold)
  /\ held' = IF ret'.exc = "none" THEN ret'.value ELSE held
  /\ call' = [fn |-> "detect_anomalies", data |-> held, sensor_name |-> sensor_name,
              method |-> method, threshold |-> threshold]
  /\ history' = Append(history, "detect_anomalies")
  /\ UNCHANGED pending

SensorArgs == {"temp", "flow"}
MethodArgs == {"zscore", "iqr", "rolling", "mad"}
Thresholds == {5, 30}

\* on the dataset ingest_data returned
DetectFirst ==
  /\ history = <<"ingest_data">>
  /\ \E s \in SensorArgs, m \in MethodArgs, t \in Thresholds : Detect(s, m, t)

\* on the dataset an earlier detect_anomalies returned
DetectAgain ==
  /\ history = <<"ingest_data", "detect_anomalies">>
  /\ \E s \in SensorArgs, m \in MethodArgs, t \in Thresholds : Detect(s, m, t)

\* summarize_metrics(held)
Summarize ==
  /\ ret.exc = "none"
  /\ LastFn \in {"ingest_data", "detect_anomalies"}
  /\ ret' = summarize_metrics(held, "sensor", "None")
  /\ call' = [fn |-> "summarize_metrics", data |-> held, group_by |-> "sensor",
              time_window |-> "None"]
  /\ history' = Append(history, "summarize_metrics")
  /\ UNCHANGED <<pending, held>>

Start(inputs) ==
  /\ pending \in inputs
  /\ held = None
  /\ call = NoCall
  /\ ret = Returned(None, "none", <<>>)
  /\ history = <<>>

----------------------------------------------------------------------------
(* Ingestion runs *)

InitIngest == Start(RowInputs \cup BatchInputs)

NextIngest == (\E validate \in BOOLEAN : Ingest(validate)) \/ Reingest

SpecIngest == InitIngest /\ [][NextIngest]_vars

----------------------------------------------------------------------------
(* Detection runs: one batch of readings of two sensors, ingested with or   *)
(* without validation, then one detect_anomalies call.                     *)

MaxRowsDetect == 3

DetectRows ==
  { Reading("T1", "temp", Cell(1), Cell("GOOD")),
    Reading("T2", "temp", Cell(1), Cell("GOOD")),
    Reading("T3", "temp", Cell(1), Cell("GOOD")),
    Reading("T1", "temp", Cell(2), Cell("GOOD")),
    Reading("T2", "temp", NaN, Cell("GOOD")),
    Reading("T1", "pres", Cell(1), Cell("GOOD")) }

DetectInputs ==
  {List(<<DataFrame(RawColumns, rows)>>) : rows \in SeqsUpTo(DetectRows, MaxRowsDetect)}

InitDetect == Start(DetectInputs)

NextDetect == (\E validate \in BOOLEAN : Ingest(validate)) \/ DetectFirst

SpecDetect == InitDetect /\ [][NextDetect]_vars

----------------------------------------------------------------------------
(* Whole pipelines: ingest, then detect, detect again, summarize or ingest  *)
(* the cleaned dataset once more.                                          *)

MaxRowsPipeline == 2

PipelineRows ==
  {Reading(ts, s, Cell(v), Cell("GOOD")) :
     ts \in {"T1", "T2"}, s \in {"temp", "pres"}, v \in {1, 2}}

PipelineInputs ==
  {List(<<DataFrame(RawColumns, rows)>>) : rows \in SeqsUpTo(PipelineRows, MaxRowsPipeline)}

Init == Start(PipelineInputs)

Next ==
  \/ \E validate \in BOOLEAN : Ingest(validate)
  \/ Reingest
  \/ DetectFirst
  \/ DetectAgain
  \/ Summarize

Spec == Init /\ [][Next]_vars

----------------------------------------------------------------------------
(* Properties of ingest_data, over the ingestion runs *)

\* The last call was ingest_data with validate=True and it returned a dataset.
ValidatedIngestReturned ==
  /\ LastFn = "ingest_data"
  /\ call.validate
  /\ ret.exc = "none"

\* The batches given to the first ingest_data call that it keeps.
KeptBatches ==
  {i \in 1..Len(call.data_batches.items) :
     /\ call.data_batches.items[i].type = "DataFrame"
     /\ Len(call.data_batches.items[i].rows) > 0}

RECURSIVE RowTotal(_, _)
RowTotal(items, keep) ==
  IF Len(items) = 0 THEN 0
  ELSE (IF Len(items) \in keep THEN Len(items[Len(items)].rows) ELSE 0)
       + RowTotal(SubSeq(items, 1, Len(items) - 1), keep)

\* How many rows of `rows` equal r.
Count(rows, r) == Cardinality({i \in 1..Len(rows) : rows[i] = r})

----------------------------------------------------------------------------
(* Properties of detect_anomalies, over the detection runs *)

DetectCalled == LastFn = "detect_anomalies"
DetectReturned == DetectCalled /\ ret.exc = "none"

\* The positions of the analyzed sensor's rows, and of those with a value.
SensorPositions(rows) == {i \in 1..Len(rows) : rows[i].sensor = call.sensor_name}
ValuePositions(rows) == {i \in SensorPositions(rows) : ~isna(rows[i].value)}

\* No two rows of the dataset given to detect_anomalies are equal in every
\* column; no two share timestamp and sensor.
DistinctRows ==
  \A i, j \in 1..Len(call.data.rows) : i # j => call.data.rows[i] # call.data.rows[j]
DistinctKeys ==
  \A i, j \in 1..Len(call.data.rows) :
    i # j => \E k \in MergeKeys : call.data.rows[i][k] # call.data.rows[j][k]

\* C3: a successful detect_anomalies call returns exactly as many rows as
\* the dataset it was given (stated here for datasets without duplicate
\* rows; two rows may share a timestamp and differ in value).
C3_RowCountPreserved ==
  (DetectReturned /\ DistinctRows) => Len(ret.value.rows) = Len(call.data.rows)

\* C6: detect_anomalies raises ValueError and returns nothing when the sensor
\* has no row, the method is not zscore, iqr or rolling, or the sensor has
\* fewer than two non-missing values; it raises in one of the three checks
\* that precede scoring, and the caller's dataset is as it was.
C6_DetectInputErrors ==
  (/\ DetectCalled
   /\ \/ SensorPositions(call.data.rows) = {}
      \/ call.method \notin {"zscore", "iqr", "rolling"}
      \/ Cardinality(ValuePositions(call.data.rows)) < 2)
  => /\ ret.exc = "ValueError"
     /\ ret.value = None
     /\ ret.stage \in {"check_sensor", "check_method", "check_values"}
     /\ held = call.data

\* C6's case: a known sensor and a supported method, but a single non-missing
\* value next to a missing one.
C6_Witness ==
  /\ DetectCalled
  /\ call.method \in {"zscore", "iqr", "rolling"}
  /\ Cardinality(SensorPositions(call.data.rows)) >= 2
  /\ Cardinality(ValuePositions(call.data.rows)) = 1
  /\ ret.exc = "ValueError"
  /\ ret.stage = "check_values"

\* C9: a successful detect_anomalies call adds the three anomaly columns and
\* nothing else; rows of other sensors get false / 0.0 / "none", rows of the
\* analyzed sensor get the method's name, and the columns the input had keep
\* their values: every output row is an input row in those columns, every
\* input row is there, and row by row when the row count is the input's.
C9_DetectFrame ==
  DetectReturned =>
    /\ ret.value.columns = call.data.columns \cup AnomalyColumns
    /\ \A i \in 1..Len(ret.value.rows) :
         /\ ret.value.rows[i].sensor # call.sensor_name =>
              /\ ret.value.rows[i].is_anomaly = Cell(FALSE)
              /\ ret.value.rows[i].anomaly_score = Cell(ZeroScore)
              /\ ret.value.rows[i].detection_method = Cell("none")
         /\ ret.value.rows[i].sensor = call.sensor_name =>
              ret.value.rows[i].detection_method = Cell(call.method)
         /\ \E j \in 1..Len(call.data.rows) :
              \A c \in call.data.columns : ret.value.rows[i][c] = call.data.rows[j][c]
    /\ \A j \in 1..Len(call.data.rows) :
         \E i \in 1..Len(ret.value.rows) :
           \A c \in call.data.columns : ret.value.rows[i][c] = call.data.rows[j][c]
    /\ Len(ret.value.rows) = Len(call.data.rows) =>
         \A i \in 1..Len(ret.value.rows) :
           \A c \in call.data.columns : ret.value.rows[i][c] = call.data.rows[i][c]

\* C9's case: a returned dataset with rows of the analyzed sensor, one of them
\* flagged, and a row of another sensor at a timestamp the analyzed sensor
\* has too.
C9_Witness ==
  /\ DetectReturned
  /\ Len(ret.value.rows) = 3
  /\ \E i, j \in 1..Len(ret.value.rows) :
       /\ ret.value.rows[i].sensor = call.sensor_name
       /\ ret.value.rows[i].is_anomaly = Cell(TRUE)
       /\ ret.value.rows[j].sensor # call.sensor_name
       /\ ret.value.rows[j].timestamp = ret.value.rows[i].timestamp

\* C10: zscore on a sensor whose non-missing values (two or more) are all
\* equal gives anomaly_score 0.0 and is_anomaly false on each of its rows
\* (stated here for datasets with one row per timestamp and sensor).
C10_ConstantZScore ==
  (/\ DetectReturned
   /\ DistinctKeys
   /\ call.method = "zscore"
   /\ \A i, j \in ValuePositions(call.data.rows) :
        call.data.rows[i].value = call.data.rows[j].value)
  => \A i \in SensorPositions(ret.value.rows) :
       /\ ret.value.rows[i].is_anomaly = Cell(FALSE)
       /\ ret.value.rows[i].anomaly_score = Cell(ZeroScore)

----------------------------------------------------------------------------
(* Properties of whole pipelines *)

\* C5: detect_anomalies on a dataset an earlier detect_anomalies call returned
\* (one row per timestamp and sensor) succeeds and returns the columns it was
\* given, one of each anomaly column, holding the results of the new call.
C5_DetectAgainReturns ==
  (/\ history = <<"ingest_data", "detect_anomalies", "detect_anomalies">>
   /\ DistinctKeys
   /\ SensorPositions(call.data.rows) # {}
   /\ call.method \in supported_methods
   /\ Cardinality(ValuePositions(call.data.rows)) >= 2)
  => /\ ret.exc = "none"
     /\ ret.value.columns = call.data.columns
     /\ Len(ret.value.rows) = Len(call.data.rows)
     /\ \A i \in 1..Len(ret.value.rows) :
          IF ret.value.rows[i].sensor = call.sensor_name
          THEN ret.value.rows[i].detection_method = Cell(call.method)
          ELSE /\ ret.value.rows[i].is_anomaly = Cell(FALSE)
               /\ ret.value.rows[i].anomaly_score = Cell(ZeroScore)
               /\ ret.value.rows[i].detection_method = Cell("none")

\* The mapping summarize_metrics is to return: one entry per group, each
\* with its metrics.
Summary(groups, metrics) == [type |-> "dict", groups |-> groups, metrics |-> metrics]

\* C8: summarize_metrics on a dataset of N >= 1 rows, all of one sensor,
\* returns a mapping with exactly one group key, whose count is N.
C8_SingleSensorCount ==
  (/\ LastFn = "summarize_metrics"
   /\ Len(call.data.rows) >= 1
   /\ \A i \in 1..Len(call.data.rows) : call.data.rows[i].sensor = call.data.rows[1].sensor)
  => /\ ret.exc = "none"
     /\ ret.value.type = "dict"
     /\ Cardinality(ret.value.groups) = 1
     /\ \A g \in ret.value.groups : ret.value.metrics[g].count = Len(call.data.rows)

====
